---- MODULE Spec2Model ----
(***************************************************************************)
(* A model of bot.py, the ToDo & reminder bot: the per-user task lists,    *)
(* the one-shot reminder jobs handed to the scheduler, the send_reminder   *)
(* tasks the scheduler starts, the pending_reminders registry and the      *)
(* command and button handlers.                                            *)
(*                                                                         *)
(* Time is counted in ticks, TicksPerMinute of them to a minute, so that   *)
(* an instant has a part below the minute as datetime.now() has.  A task   *)
(* text is a sequence of characters, character 0 being white space.  In    *)
(* the program a task is only its text; the model pairs every list entry   *)
(* with an id that the program never sees (a history variable), so that    *)
(* "the task the reminder was set for" can be told from another task with  *)
(* the same text or at the same position.                                  *)
(*                                                                         *)
(* What a handler reports to the user is an output, not state: for every   *)
(* handler the operator named <handler>_reply gives the report as a        *)
(* function of the state the handler starts in and of its input.           *)
(*                                                                         *)
(* The handlers are coroutines.  The Application is built without          *)
(* concurrent_updates, so one update is handled at a time: a handler is    *)
(* one action, and the result of the Notifier call it awaits is an input   *)
(* of the action where code follows the call.  The send_reminder tasks     *)
(* are started by the scheduler and do interleave with the handlers at     *)
(* their awaits: each is modelled step by step.                            *)
(***************************************************************************)
EXTENDS Integers, Sequences, FiniteSets, TLC

\* ---------------------------------------------------------------- bounds
NumOwners == 2
MaxAdds == 2
MaxJobs == 2
MaxTicks == 2
TicksPerMinute == 2

\* ------------------------------------------------------- program constants
MinutesPerHour == 60
HoursPerDay == 24

TicksPerHour == MinutesPerHour * TicksPerMinute
TicksPerDay == HoursPerDay * TicksPerHour

Owners == 1..NumOwners
JobIds == 1..MaxJobs
Uids == 1..MaxJobs

\* The instant the bot starts at: 23:58 and one tick, on day 0.
StartNow == (23 * MinutesPerHour + 58) * TicksPerMinute + 1
MaxNow == StartNow + MaxTicks

\* ------------------------------------------------------------ the inputs
\* An argument string of a command or of callback data: either the decimal
\* form of the integer v, or something int() raises ValueError on.
NumArg(v) == [ok |-> TRUE, v |-> v]
Garbage == [ok |-> FALSE, v |-> 0]

\* The text after "/add ", before it is stripped.
RawTexts == {<<>>, <<0>>, <<1>>, <<0, 1>>, <<1, 0>>, <<2>>}
TaskNumbers == {NumArg(n) : n \in -1..3} \cup {Garbage}
Minutes == {NumArg(n) : n \in -1..1} \cup {Garbage}
\* The third argument of /remind, as the two parsers read it: int(s), and
\* s.split(":") with int() of every part.
Plain(a) == [int |-> a, clock |-> <<a>>]
Clock(parts) == [int |-> Garbage, clock |-> parts]
\* The mode and time arguments of /remind.
ModeTimes ==
  {<<"in", Plain(m)>> : m \in Minutes} \cup
  {<<"IN", Plain(NumArg(1))>>, <<"on", Plain(NumArg(1))>>, <<"at", Plain(NumArg(1))>>,
   <<"at", Clock(<<NumArg(23), NumArg(59)>>)>>,
   <<"at", Clock(<<NumArg(24), NumArg(0)>>)>>,
   <<"at", Clock(<<NumArg(0), NumArg(60)>>)>>,
   <<"at", Clock(<<NumArg(23), Garbage>>)>>,
   <<"at", Clock(<<NumArg(23), NumArg(59), NumArg(0)>>)>>}

VARIABLES
  tasks,              \* tasks: user_id -> the list of [text, id]
  nextId,             \* the id the next added task gets (history)
  jobs,               \* the jobs in the scheduler's job store
  nextJob,            \* the id the next accepted job gets (history)
  fired,              \* fired[j]: how often the scheduler ran job j (history)
  running,            \* the send_reminder tasks in progress
  pending_reminders,  \* uid -> [user_id, task, task_index] (and ref, history)
  nextUid,            \* the next uuid4 value
  used,               \* used[uid]: the task removals and snooze jobs that
                      \* actions on token uid have caused (history)
  now                 \* the clock, in ticks

vars == <<tasks, nextId, jobs, nextJob, fired, running, pending_reminders,
          nextUid, used, now>>

\* ------------------------------------------------------------- helpers
\* str.strip(): leading and trailing white space removed.
RECURSIVE LStrip(_)
LStrip(s) == IF s # <<>> /\ Head(s) = 0 THEN LStrip(Tail(s)) ELSE s

RECURSIVE RStrip(_)
RStrip(s) ==
  IF s # <<>> /\ s[Len(s)] = 0 THEN RStrip(SubSeq(s, 1, Len(s) - 1)) ELSE s

Strip(s) == RStrip(LStrip(s))

\* list.pop(i), i counted from 0: the list without that element.
PopAt(l, i) == SubSeq(l, 1, i) \o SubSeq(l, i + 2, Len(l))

\* The positions (from 1) of the entries of l whose text is t.
Positions(l, t) == {i \in 1..Len(l) : l[i].text = t}

Min(S) == CHOOSE x \in S : \A y \in S : x <= y

\* l[i] for a Python index i, which may be negative: whether it is in range,
\* and the position (from 1) it reads.
InRange(l, i) == -Len(l) <= i /\ i < Len(l)
PyPos(l, i) == IF i >= 0 THEN i + 1 ELSE Len(l) + i + 1

\* ------------------------------------------------------------ TaskStore
Init ==
  /\ tasks = [o \in Owners |-> <<>>]
  /\ nextId = 1
  /\ jobs = {}
  /\ nextJob = 1
  /\ fired = [j \in JobIds |-> 0]
  /\ running = {}
  /\ pending_reminders = <<>>
  /\ nextUid = 1
  /\ used = [u \in Uids |-> 0]
  /\ now = StartNow

add_task_reply(user_id, raw) ==
  IF Strip(raw) = <<>> THEN "add_usage" ELSE "task_added"

\* add_task with one list for all users, kept under the first user.
add_task_OneList(user_id, raw) ==
  LET task == Strip(raw) IN
  IF task = <<>>
  THEN UNCHANGED vars
  ELSE /\ nextId <= MaxAdds
       /\ tasks' = [tasks EXCEPT
                      ![1] = Append(@, [text |-> task, id |-> nextId])]
       /\ nextId' = nextId + 1
       /\ UNCHANGED <<jobs, nextJob, fired, running, pending_reminders,
                      nextUid, used, now>>

\* add_task with list.insert(0, task) for list.append(task).
add_task_Prepends(user_id, raw) ==
  LET task == Strip(raw) IN
  IF task = <<>>
  THEN UNCHANGED vars
  ELSE /\ nextId <= MaxAdds
       /\ tasks' = [tasks EXCEPT
                      ![user_id] = <<[text |-> task, id |-> nextId]>> \o @]
       /\ nextId' = nextId + 1
       /\ UNCHANGED <<jobs, nextJob, fired, running, pending_reminders,
                      nextUid, used, now>>

add_task(user_id, raw) ==
  LET task == Strip(raw) IN
  IF task = <<>>
  THEN UNCHANGED vars
  ELSE /\ nextId <= MaxAdds
       /\ tasks' = [tasks EXCEPT
                      ![user_id] = Append(@, [text |-> task, id |-> nextId])]
       /\ nextId' = nextId + 1
       /\ UNCHANGED <<jobs, nextJob, fired, running, pending_reminders,
                      nextUid, used, now>>

\* The numbered texts /list shows, or the empty list.
list_tasks_reply(user_id) ==
  [i \in 1..Len(tasks[user_id]) |-> tasks[user_id][i].text]

list_tasks(user_id) == UNCHANGED vars

\* args: the arguments after /delete, a sequence of argument strings.
delete_task_reply(user_id, args) ==
  LET user_tasks == tasks[user_id] IN
  IF user_tasks = <<>> THEN "delete_no_tasks"
  ELSE IF Len(args) = 0 THEN "delete_usage"
  ELSE IF ~args[1].ok THEN "delete_not_a_number"
  ELSE IF args[1].v - 1 < 0 \/ args[1].v - 1 >= Len(user_tasks)
  THEN "delete_invalid"
  ELSE "deleted"

\* delete_task without the test task_index < 0: list.pop takes a negative
\* index from the end of the list.
delete_task_NoLowerBound(user_id, args) ==
  LET user_tasks == tasks[user_id] IN
  /\ UNCHANGED <<nextId, jobs, nextJob, fired, running, pending_reminders,
                 nextUid, used, now>>
  /\ IF user_tasks = <<>> \/ Len(args) = 0
     THEN UNCHANGED tasks
     ELSE IF ~args[1].ok
     THEN UNCHANGED tasks
     ELSE LET task_index == args[1].v - 1 IN
          IF ~InRange(user_tasks, task_index)
          THEN UNCHANGED tasks
          ELSE tasks' = [tasks EXCEPT
                           ![user_id] = PopAt(@, PyPos(@, task_index) - 1)]

\* delete_task that also takes the reminders of the deleted task out of the
\* scheduler's queue.
delete_task_CancelsJobs(user_id, args) ==
  LET user_tasks == tasks[user_id] IN
  /\ UNCHANGED <<nextId, nextJob, fired, running, pending_reminders,
                 nextUid, used, now>>
  /\ IF user_tasks = <<>> \/ Len(args) = 0
     THEN UNCHANGED <<tasks, jobs>>
     ELSE IF ~args[1].ok
     THEN UNCHANGED <<tasks, jobs>>
     ELSE LET task_index == args[1].v - 1 IN
          IF task_index < 0 \/ task_index >= Len(user_tasks)
          THEN UNCHANGED <<tasks, jobs>>
          ELSE /\ tasks' = [tasks EXCEPT ![user_id] = PopAt(@, task_index)]
               /\ jobs' = {j \in jobs : j.ref # user_tasks[task_index + 1].id}

delete_task(user_id, args) ==
  LET user_tasks == tasks[user_id] IN
  /\ UNCHANGED <<nextId, jobs, nextJob, fired, running, pending_reminders,
                 nextUid, used, now>>
  /\ IF user_tasks = <<>> \/ Len(args) = 0
     THEN UNCHANGED tasks
     ELSE IF ~args[1].ok
     THEN UNCHANGED tasks
     ELSE LET task_index == args[1].v - 1 IN
          IF task_index < 0 \/ task_index >= Len(user_tasks)
          THEN UNCHANGED tasks
          ELSE tasks' = [tasks EXCEPT ![user_id] = PopAt(@, task_index)]

\* ---------------------------------------------------------- TimeResolver
\* str.lower() of the mode argument.
Lower(mode) == IF mode = "IN" THEN "in" ELSE IF mode = "AT" THEN "at" ELSE mode

\* now + timedelta(minutes=minutes)
ResolveIn(t, minutes) == t + minutes * TicksPerMinute

\* ResolveAt with "<" for "<=": an instant equal to now stays today.
ResolveAt_NoRollOnEqual(t, hour, minute) ==
  LET run_time == (t - (t % TicksPerDay))
                    + (hour * MinutesPerHour + minute) * TicksPerMinute
  IN IF run_time < t THEN run_time + TicksPerDay ELSE run_time

\* now.replace(hour=hour, minute=minute, second=0, microsecond=0), a day
\* added when that is not after now.  Asia/Jakarta has no daylight saving
\* time: a day is always TicksPerDay.
ResolveAt(t, hour, minute) ==
  LET run_time == (t - (t % TicksPerDay))
                    + (hour * MinutesPerHour + minute) * TicksPerMinute
  IN IF run_time <= t THEN run_time + TicksPerDay ELSE run_time

\* ValidClock with the hour 24 let through.
ValidClock_Hour24(hour, minute) ==
  hour \in 0..HoursPerDay /\ minute \in 0..(MinutesPerHour - 1)

\* datetime.replace raises ValueError outside these ranges.
ValidClock(hour, minute) ==
  hour \in 0..(HoursPerDay - 1) /\ minute \in 0..(MinutesPerHour - 1)

\* hour, minute = map(int, s.split(":")) raises ValueError.
BadClock(clock) ==
  \/ Len(clock) # 2
  \/ \E i \in 1..Len(clock) : ~clock[i].ok

\* ------------------------------------------------------ ReminderScheduler
\* schedule_reminder that adds the job only while the task it is for is in
\* the owner's list.
schedule_reminder_NeedsTask(run_time, user_id, task, task_index, ref) ==
  IF \E i \in 1..Len(tasks[user_id]) : tasks[user_id][i].id = ref
  THEN /\ jobs' = jobs \cup {[jid |-> nextJob, run_time |-> run_time,
                              user_id |-> user_id, task |-> task,
                              task_index |-> task_index, ref |-> ref]}
       /\ nextJob' = nextJob + 1
  ELSE UNCHANGED <<jobs, nextJob>>

\* scheduler.add_job(..., 'date', run_date=run_time): one more one-shot job.
schedule_reminder(run_time, user_id, task, task_index, ref) ==
  /\ jobs' = jobs \cup {[jid |-> nextJob, run_time |-> run_time,
                         user_id |-> user_id, task |-> task,
                         task_index |-> task_index, ref |-> ref]}
  /\ nextJob' = nextJob + 1

\* args: the arguments after /remind: <<>>, <<number>> or
\* <<number, mode, time>>.
remind_reply(user_id, args) ==
  LET user_tasks == tasks[user_id] IN
  IF user_tasks = <<>> THEN "remind_no_tasks"
  ELSE IF Len(args) = 0 THEN "remind_select"
  ELSE IF Len(args) < 3 THEN "remind_usage"
  ELSE IF ~args[1].ok \/ ~InRange(user_tasks, args[1].v - 1)
  THEN "remind_invalid_task"
  ELSE IF Lower(args[2]) = "in"
  THEN IF ~args[3].int.ok THEN "remind_in_example" ELSE "reminder_set"
  ELSE IF Lower(args[2]) = "at"
  THEN IF BadClock(args[3].clock)
       THEN "remind_at_example"
       ELSE IF ~ValidClock(args[3].clock[1].v, args[3].clock[2].v)
       THEN "remind_at_example"
       ELSE "reminder_set"
  ELSE "remind_mode"

remind(user_id, args) ==
  LET user_tasks == tasks[user_id]
      Rejected == UNCHANGED <<jobs, nextJob>>
      Accepted(run_time, task_index) ==
        /\ nextJob <= MaxJobs
        /\ schedule_reminder(run_time, user_id,
                             user_tasks[PyPos(user_tasks, task_index)].text,
                             task_index,
                             user_tasks[PyPos(user_tasks, task_index)].id)
  IN
  /\ UNCHANGED <<tasks, nextId, fired, running, pending_reminders, nextUid, used, now>>
  /\ IF user_tasks = <<>> \/ Len(args) < 3
     THEN Rejected
     ELSE IF ~args[1].ok \/ ~InRange(user_tasks, args[1].v - 1)
     THEN Rejected
     ELSE LET task_index == args[1].v - 1
              mode == Lower(args[2])
              time == args[3]
          IN
          IF mode = "in"
          THEN IF ~time.int.ok THEN Rejected
               ELSE Accepted(ResolveIn(now, time.int.v), task_index)
          ELSE IF mode = "at"
          THEN IF BadClock(time.clock)
               THEN Rejected
               ELSE IF ~ValidClock(time.clock[1].v, time.clock[2].v)
               THEN Rejected
               ELSE Accepted(ResolveAt(now, time.clock[1].v, time.clock[2].v),
                             task_index)
          ELSE Rejected

\* RunJob with a trigger that keeps the job in the store after it ran.
RunJob_KeepsJob(j) ==
  /\ j \in jobs
  /\ j.run_time <= now
  /\ fired[j.jid] < 2
  /\ fired' = [fired EXCEPT ![j.jid] = @ + 1]
  /\ running' = running \cup {[jid |-> j.jid, user_id |-> j.user_id,
                               task |-> j.task, task_index |-> j.task_index,
                               ref |-> j.ref, pc |-> "get_chat", uid |-> 0]}
  /\ UNCHANGED <<tasks, nextId, jobs, nextJob, pending_reminders, nextUid, used, now>>

\* The scheduler runs a due job, once: its lambda starts a send_reminder
\* task, which runs up to its first await, bot.get_chat.
RunJob(j) ==
  /\ j \in jobs
  /\ j.run_time <= now
  /\ jobs' = jobs \ {j}
  /\ fired' = [fired EXCEPT ![j.jid] = @ + 1]
  /\ running' = running \cup {[jid |-> j.jid, user_id |-> j.user_id,
                               task |-> j.task, task_index |-> j.task_index,
                               ref |-> j.ref, pc |-> "get_chat", uid |-> 0]}
  /\ UNCHANGED <<tasks, nextId, nextJob, pending_reminders, nextUid, used, now>>

\* pending_reminders[uid] = info
Register(p, uid, info) ==
  [u \in DOMAIN p \cup {uid} |-> IF u = uid THEN info ELSE p[u]]

\* pending_reminders.pop(uid, None)
Unregister(p, uid) == [u \in DOMAIN p \ {uid} |-> p[u]]

\* send_reminder_register with the token minted before bot.send_message
\* but not yet put into pending_reminders.
send_reminder_register_NoEntry(t) ==
  /\ t \in running
  /\ t.pc = "get_chat"
  /\ nextUid' = nextUid + 1
  /\ running' = (running \ {t})
                  \cup {[t EXCEPT !.pc = "send_message", !.uid = nextUid]}
  /\ UNCHANGED <<tasks, nextId, jobs, nextJob, fired, pending_reminders,
                 used, now>>

\* send_reminder from the return of bot.get_chat (a failure of which is
\* caught) to the start of bot.send_message: the token is minted and
\* registered.
send_reminder_register(t) ==
  /\ t \in running
  /\ t.pc = "get_chat"
  /\ pending_reminders' =
       Register(pending_reminders, nextUid,
                [user_id |-> t.user_id, task |-> t.task,
                 task_index |-> t.task_index, ref |-> t.ref])
  /\ nextUid' = nextUid + 1
  /\ running' = (running \ {t})
                  \cup {[t EXCEPT !.pc = "send_message", !.uid = nextUid]}
  /\ UNCHANGED <<tasks, nextId, jobs, nextJob, fired, used, now>>

\* send_reminder_done with the entry taken back when bot.send_message raises.
send_reminder_done_RollsBack(t, sent) ==
  /\ t \in running
  /\ t.pc = "send_message"
  /\ running' = running \ {t}
  /\ pending_reminders' = IF sent THEN pending_reminders
                           ELSE Unregister(pending_reminders, t.uid)
  /\ UNCHANGED <<tasks, nextId, jobs, nextJob, fired, nextUid, used, now>>

\* bot.send_message returns (sent) or raises: the task ends either way.
send_reminder_done(t, sent) ==
  /\ t \in running
  /\ t.pc = "send_message"
  /\ running' = running \ {t}
  /\ UNCHANGED <<tasks, nextId, jobs, nextJob, fired, pending_reminders,
                 nextUid, used, now>>

\* ------------------------------------------------ InteractionStateMachine
\* What Complete removes from user_tasks: the position (from 1) of the first
\* entry with the reminder's text (list.remove), else the position
\* task_index names when it is in range (list.pop), else 0 (nothing).
CompletePos(user_tasks, task, task_index) ==
  IF Positions(user_tasks, task) # {}
  THEN Min(Positions(user_tasks, task))
  ELSE IF 0 <= task_index /\ task_index < Len(user_tasks)
  THEN task_index + 1
  ELSE 0

\* pending_reminders.get(uid) finds an entry.
Known(uid) == uid \in DOMAIN pending_reminders

\* button_reply with the "later" and "back" branches placed before the
\* look-up of the token.
button_reply_MenuBeforeLookup(from_user, data) ==
  LET action == data[1]
      uid == data[2]
  IN
  IF action = "select"
  THEN IF uid >= 0 /\ uid < Len(tasks[from_user]) THEN "selected" ELSE "error"
  ELSE IF action = "later" THEN "snooze_menu"
  ELSE IF action = "back" THEN "reminder_choice"
  ELSE IF ~Known(uid) THEN "no_longer_available"
  ELSE IF action = "complete"
  THEN IF CompletePos(tasks[pending_reminders[uid].user_id],
                      pending_reminders[uid].task,
                      pending_reminders[uid].task_index) = 0
       THEN "task_not_found" ELSE "completed"
  ELSE IF action = "snooze"
  THEN IF Len(data) < 3 \/ ~data[3].ok THEN "error" ELSE "snoozed"
  ELSE "none"

\* data: query.data split at "_": <<action, uid>> or <<"snooze", uid, minutes>>.
button_reply(from_user, data) ==
  LET action == data[1]
      uid == data[2]
  IN
  IF action = "select"
  THEN IF uid >= 0 /\ uid < Len(tasks[from_user]) THEN "selected" ELSE "error"
  ELSE IF ~Known(uid) THEN "no_longer_available"
  ELSE IF action = "complete"
  THEN IF CompletePos(tasks[pending_reminders[uid].user_id],
                      pending_reminders[uid].task,
                      pending_reminders[uid].task_index) = 0
       THEN "task_not_found" ELSE "completed"
  ELSE IF action = "later" THEN "snooze_menu"
  ELSE IF action = "snooze"
  THEN IF Len(data) < 3 \/ ~data[3].ok THEN "error" ELSE "snoozed"
  ELSE IF action = "back" THEN "reminder_choice"
  ELSE "none"

\* button_handler with the "later" branch taking the entry out of the
\* registry.
button_handler_LaterConsumes(from_user, data, sent) ==
  LET action == data[1]
      uid == data[2]
  IN
  /\ UNCHANGED <<nextId, fired, running, nextUid, now>>
  /\ IF action = "select" \/ ~Known(uid)
     THEN UNCHANGED <<tasks, jobs, nextJob, pending_reminders, used>>
     ELSE
       LET info == pending_reminders[uid]
           user_id == info.user_id
           task == info.task
           task_index == info.task_index
           user_tasks == tasks[user_id]
       IN
       IF action = "complete"
       THEN LET pos == CompletePos(user_tasks, task, task_index) IN
            /\ tasks' = IF pos = 0 THEN tasks
                         ELSE [tasks EXCEPT ![user_id] = PopAt(@, pos - 1)]
            /\ used' = IF pos = 0 THEN used ELSE [used EXCEPT ![uid] = @ + 1]
            /\ pending_reminders' = IF sent
                                     THEN Unregister(pending_reminders, uid)
                                     ELSE pending_reminders
            /\ UNCHANGED <<jobs, nextJob>>
       ELSE IF action = "snooze"
       THEN IF Len(data) < 3 \/ ~data[3].ok
            THEN UNCHANGED <<tasks, jobs, nextJob, pending_reminders, used>>
            ELSE /\ nextJob <= MaxJobs
                 /\ schedule_reminder(ResolveIn(now, data[3].v), user_id, task,
                                      task_index, info.ref)
                 /\ pending_reminders' = IF sent
                                          THEN Unregister(pending_reminders, uid)
                                          ELSE pending_reminders
                 /\ used' = [used EXCEPT ![uid] = @ + 1]
                 /\ UNCHANGED tasks
       ELSE IF action = "later"
       THEN /\ pending_reminders' = Unregister(pending_reminders, uid)
            /\ UNCHANGED <<tasks, jobs, nextJob, used>>
       ELSE UNCHANGED <<tasks, jobs, nextJob, pending_reminders, used>>

\* sent: whether the handler's query.edit_message_text returns (TRUE) or
\* raises, which ends the handler there.
button_handler(from_user, data, sent) ==
  LET action == data[1]
      uid == data[2]
  IN
  /\ UNCHANGED <<nextId, fired, running, nextUid, now>>
  /\ IF action = "select" \/ ~Known(uid)
     THEN UNCHANGED <<tasks, jobs, nextJob, pending_reminders, used>>
     ELSE
       LET info == pending_reminders[uid]
           user_id == info.user_id
           task == info.task
           task_index == info.task_index
           user_tasks == tasks[user_id]
       IN
       IF action = "complete"
       THEN LET pos == CompletePos(user_tasks, task, task_index) IN
            /\ tasks' = IF pos = 0 THEN tasks
                         ELSE [tasks EXCEPT ![user_id] = PopAt(@, pos - 1)]
            /\ used' = IF pos = 0 THEN used ELSE [used EXCEPT ![uid] = @ + 1]
            /\ pending_reminders' = IF sent
                                     THEN Unregister(pending_reminders, uid)
                                     ELSE pending_reminders
            /\ UNCHANGED <<jobs, nextJob>>
       ELSE IF action = "snooze"
       THEN IF Len(data) < 3 \/ ~data[3].ok
            THEN UNCHANGED <<tasks, jobs, nextJob, pending_reminders, used>>
            ELSE /\ nextJob <= MaxJobs
                 /\ schedule_reminder(ResolveIn(now, data[3].v), user_id, task,
                                      task_index, info.ref)
                 /\ pending_reminders' = IF sent
                                          THEN Unregister(pending_reminders, uid)
                                          ELSE pending_reminders
                 /\ used' = [used EXCEPT ![uid] = @ + 1]
                 /\ UNCHANGED tasks
       ELSE \* "later", "back", and any other action
            UNCHANGED <<tasks, jobs, nextJob, pending_reminders, used>>

\* ------------------------------------------------------------- the clock
Tick ==
  /\ now < MaxNow
  /\ now' = now + 1
  /\ UNCHANGED <<tasks, nextId, jobs, nextJob, fired, running,
                 pending_reminders, nextUid, used>>

\* --------------------------------------------------------- specification
\* The arguments of /remind: every mode and time for task 1, and "in 1" for
\* every task number.
RemindArgs ==
  {<<>>, <<NumArg(1)>>}
    \cup {<<NumArg(1), mt[1], mt[2]>> : mt \in ModeTimes}
    \cup {<<n, "in", Plain(NumArg(1))>> : n \in TaskNumbers}

DeleteArgs == {<<>>} \cup {<<n>> : n \in TaskNumbers}

\* The callback data whose handling goes on after the Notifier call, and the
\* rest.
EffectData ==
  {<<"complete", u>> : u \in Uids}
    \cup {<<"snooze", u, m>> : u \in Uids, m \in Minutes}

OtherData ==
  {<<a, u>> : a \in {"later", "back", "snooze", "other"}, u \in Uids}
    \cup {<<"select", i>> : i \in 0..1}

ButtonData == EffectData \cup OtherData

Next ==
  \/ \E o \in Owners, raw \in RawTexts : add_task(o, raw)
  \/ \E o \in Owners : list_tasks(o)
  \/ \E o \in Owners, args \in DeleteArgs : delete_task(o, args)
  \/ \E o \in Owners, args \in RemindArgs : remind(o, args)
  \/ \E j \in jobs : RunJob(j)
  \/ \E t \in running : send_reminder_register(t)
  \/ \E t \in running, sent \in BOOLEAN : send_reminder_done(t, sent)
  \/ \E o \in Owners, data \in EffectData, sent \in BOOLEAN :
       button_handler(o, data, sent)
  \/ \E o \in Owners, data \in OtherData : button_handler(o, data, TRUE)
  \/ Tick

Spec == Init /\ [][Next]_vars

\* One owner with one task text, reminders in 0 and in 1 minute, /delete and
\* the Complete and snooze buttons, under a clock that goes on, a scheduler
\* that runs the jobs that are due and an event loop that runs the
\* send_reminder tasks it holds (bot.get_chat returns or raises, and
\* send_reminder goes on either way).
NextLive ==
  \/ add_task(1, <<1>>)
  \/ delete_task(1, <<NumArg(1)>>)
  \/ \E m \in 0..1 : remind(1, <<NumArg(1), "in", Plain(NumArg(m))>>)
  \/ \E j \in jobs : RunJob(j)
  \/ \E t \in running : send_reminder_register(t)
  \/ \E t \in running, sent \in BOOLEAN : send_reminder_done(t, sent)
  \/ \E u \in Uids, sent \in BOOLEAN :
       button_handler(1, <<"snooze", u, NumArg(1)>>, sent)
  \/ \E u \in Uids, sent \in BOOLEAN : button_handler(1, <<"complete", u>>, sent)
  \/ Tick

SpecLive ==
  /\ Init
  /\ [][NextLive]_vars
  /\ WF_vars(Tick)
  /\ WF_vars(\E j \in jobs : RunJob(j))
  /\ WF_vars(\E t \in running : send_reminder_register(t))

\* The resolver alone: the bot has one task, the clock stands at any instant
\* of a day, and one /remind 1 at HH:MM arrives, for the hours and minutes
\* next to the clock's and at the ends of their ranges.
ClockHours == -1..HoursPerDay
ClockMinutes == -1..MinutesPerHour
HourOf(t) == (t % TicksPerDay) \div TicksPerHour
MinuteOf(t) == ((t % TicksPerDay) % TicksPerHour) \div TicksPerMinute
NearHours(t) ==
  {h \in ClockHours : h \in {-1, 0, HoursPerDay - 1, HoursPerDay}
                       \/ (h - HourOf(t)) \in -1..1}
NearMinutes(t) ==
  {m \in ClockMinutes : m \in {-1, 0, MinutesPerHour - 1, MinutesPerHour}
                         \/ (m - MinuteOf(t)) \in -1..1}
AtArgs(h, m) == <<NumArg(1), "at", Clock(<<NumArg(h), NumArg(m)>>)>>

InitTime ==
  /\ tasks = [o \in Owners |-> IF o = 1 THEN <<[text |-> <<1>>, id |-> 1]>>
                                ELSE <<>>]
  /\ nextId = 2
  /\ jobs = {}
  /\ nextJob = 1
  /\ fired = [j \in JobIds |-> 0]
  /\ running = {}
  /\ pending_reminders = <<>>
  /\ nextUid = 1
  /\ used = [u \in Uids |-> 0]
  /\ now \in TicksPerDay..(2 * TicksPerDay - 1)

NextTime ==
  /\ jobs = {}
  /\ \E h \in NearHours(now), m \in NearMinutes(now) : remind(1, AtArgs(h, m))

SpecTime == InitTime /\ [][NextTime]_vars

\* ------------------------------------------------------------- the claims
\* The task a pending entry was created for is still in its owner's list.
TaskExists(uid) ==
  \E i \in 1..Len(tasks[pending_reminders[uid].user_id]) :
    tasks[pending_reminders[uid].user_id][i].id = pending_reminders[uid].ref

\* The list l without the entry whose id is ref, the rest in their order.
Without(l, ref) == SelectSeq(l, LAMBDA e : e.id # ref)

\* Where a reference (text and position) leads in the owner's list l, as
\* Complete follows it, is nowhere or the task with id ref.
LeadsTo(l, task, task_index, ref) ==
  CompletePos(l, task, task_index) # 0
    => l[CompletePos(l, task, task_index)].id = ref

\* C1: a Complete on a token in the registry whose task still exists removes
\* exactly that task from its owner's list, also when another task has the
\* same text; all other tasks stay, in their order.
C1_CompleteRemovesReferenced ==
  [][\A o \in Owners, u \in Uids, sent \in BOOLEAN :
       (Known(u) /\ TaskExists(u) /\ button_handler(o, <<"complete", u>>, sent))
         => tasks' = [tasks EXCEPT ![pending_reminders[u].user_id] =
                        Without(@, pending_reminders[u].ref)]]_vars

\* C2: a Complete on a token in the registry whose task was deleted before
\* answers "task not found", removes no task and removes the pending entry.
C2_CompleteOfDeletedTask ==
  [][\A o \in Owners, u \in Uids :
       (Known(u) /\ ~TaskExists(u) /\ button_handler(o, <<"complete", u>>, TRUE))
         => /\ button_reply(o, <<"complete", u>>) = "task_not_found"
            /\ tasks' = tasks
            /\ u \notin DOMAIN pending_reminders']_vars

\* C3: what a queued job, a send_reminder task or a pending entry refers to
\* its task by never leads to another task than the one it was created for.
C3_StableReference ==
  /\ \A j \in jobs : LeadsTo(tasks[j.user_id], j.task, j.task_index, j.ref)
  /\ \A t \in running : LeadsTo(tasks[t.user_id], t.task, t.task_index, t.ref)
  /\ \A u \in DOMAIN pending_reminders :
       LeadsTo(tasks[pending_reminders[u].user_id], pending_reminders[u].task,
               pending_reminders[u].task_index, pending_reminders[u].ref)

\* C5: a SnoozeChoice(m) on a token in the registry adds exactly one job, for
\* the owner and task of the pending entry, at now + m minutes, and the
\* token is out of the registry afterwards.
C5_SnoozeSchedulesOnce ==
  [][\A o \in Owners, u \in Uids, m \in -1..1, sent \in BOOLEAN :
       (Known(u) /\ button_handler(o, <<"snooze", u, NumArg(m)>>, sent))
         => /\ \E j \in jobs' :
                 /\ j \notin jobs
                 /\ jobs' = jobs \cup {j}
                 /\ j.user_id = pending_reminders[u].user_id
                 /\ j.task = pending_reminders[u].task
                 /\ j.ref = pending_reminders[u].ref
                 /\ j.run_time = now + m * TicksPerMinute
            /\ u \notin DOMAIN pending_reminders']_vars

\* C6: once a Complete was handled for a token, the token is out of the
\* registry, so that a later action on it is answered "no longer available"
\* and removes no task.
C6_CompleteConsumesToken ==
  [][\A o \in Owners, u \in Uids, sent \in BOOLEAN :
       (Known(u) /\ button_handler(o, <<"complete", u>>, sent))
         => u \notin DOMAIN pending_reminders']_vars

\* C9: /remind ... in m and SnoozeChoice(m) with m <= 0 are rejected: no job
\* is scheduled, and the task lists and the registry stay as they are.
C9_PositiveMinutes ==
  /\ [][\A o \in Owners, n \in TaskNumbers, m \in -1..0 :
          remind(o, <<n, "in", Plain(NumArg(m))>>)
            => /\ remind_reply(o, <<n, "in", Plain(NumArg(m))>>) # "reminder_set"
               /\ UNCHANGED <<tasks, jobs, pending_reminders>>]_vars
  /\ [][\A o \in Owners, u \in Uids, m \in -1..0, sent \in BOOLEAN :
          (Known(u) /\ button_handler(o, <<"snooze", u, NumArg(m)>>, sent))
            => /\ button_reply(o, <<"snooze", u, NumArg(m)>>) # "snoozed"
               /\ UNCHANGED <<tasks, jobs, pending_reminders>>]_vars

\* C10: a /remind whose task number is not the number of a task of the
\* owner (too large, zero or negative) is answered as invalid, schedules no
\* job and changes nothing.
C10_RemindUnknownTask ==
  [][\A o \in Owners, n \in -1..3, mt \in ModeTimes :
       (n \notin 1..Len(tasks[o]) /\ remind(o, <<NumArg(n), mt[1], mt[2]>>))
         => /\ remind_reply(o, <<NumArg(n), mt[1], mt[2]>>)
                 \in {"remind_invalid_task", "remind_no_tasks"}
            /\ UNCHANGED vars]_vars

TokenData ==
  {<<a, u>> : a \in {"complete", "later", "back"}, u \in Uids}
    \cup {<<"snooze", u, m>> : u \in Uids, m \in Minutes}

\* C4: a Complete, Defer, SnoozeChoice or Back action whose token is not in
\* the pending registry is answered "no longer available", and the step
\* changes no task list, not the scheduler's queue and not the registry.
C4_UnknownToken ==
  /\ [](\A o \in Owners, data \in TokenData :
          ~Known(data[2]) => button_reply(o, data) = "no_longer_available")
  /\ [][\/ UNCHANGED <<tasks, jobs, pending_reminders>>
        \/ \A o \in Owners, data \in TokenData, sent \in BOOLEAN :
             ~(~Known(data[2]) /\ button_handler(o, data, sent))]_vars

\* A token that was minted and has left the registry, with its task still in
\* the list: an action on it is the case of C4, and leaves this state as it is.
C4_Witness ==
  \E u \in 1..(nextUid - 1) :
    /\ ~Known(u)
    /\ \E o \in Owners : tasks[o] # <<>>

ExpectedAt(t, h, m) ==
  LET tod == t % TicksPerDay
      target == (h * MinutesPerHour + m) * TicksPerMinute
      today == t - tod
  IN IF tod < target THEN today + target ELSE today + TicksPerDay + target

C8_AbsoluteTime ==
  [][\A h \in NearHours(now), m \in NearMinutes(now) :
       (ValidClock(h, m) /\ remind(1, AtArgs(h, m)))
         => \E j \in jobs' :
              /\ jobs' = jobs \cup {j}
              /\ j \notin jobs
              /\ j.run_time = ExpectedAt(now, h, m)
              /\ j.run_time > now
              /\ j.run_time <= now + TicksPerDay]_vars

\* The clock stood at H:M:00 exactly and the job is a whole day away.
C8_Witness ==
  \E j \in jobs :
    /\ j.run_time = now + TicksPerDay
    /\ now % TicksPerMinute = 0

\* The time arguments of /remind that the specification calls malformed: a
\* minute count that is no integer, a clock that is not two integers H:M with
\* H in 0..23 and M in 0..59, or a mode that is neither "in" nor "at" (in
\* any case of the letters).
Malformed(mt) ==
  IF mt[1] \in {"in", "IN"} THEN ~mt[2].int.ok
  ELSE IF mt[1] \in {"at", "AT"}
  THEN \/ Len(mt[2].clock) # 2
       \/ \E i \in 1..Len(mt[2].clock) : ~mt[2].clock[i].ok
       \/ mt[2].clock[1].v < 0 \/ mt[2].clock[1].v >= HoursPerDay
       \/ mt[2].clock[2].v < 0 \/ mt[2].clock[2].v >= MinutesPerHour
  ELSE TRUE

\* The /remind requests with a malformed time.
MalformedArgs ==
  {args \in RemindArgs : Len(args) = 3 /\ Malformed(<<args[2], args[3]>>)}

\* C11: a /remind with a malformed time is answered with one of the error
\* replies, and the step schedules no job and leaves the task lists and the
\* registry as they are.
C11_MalformedTime ==
  /\ [](\A o \in Owners, args \in MalformedArgs :
          remind_reply(o, args) # "reminder_set")
  /\ [][\/ UNCHANGED <<tasks, jobs, nextJob, pending_reminders>>
        \/ \A o \in Owners, args \in MalformedArgs : ~remind(o, args)]_vars

\* An owner has a task and a reminder set on it, and a /remind 1 at 24:00 of
\* this owner gets as far as the clock and is answered with the example.
C11_Witness ==
  \E o \in Owners :
    /\ tasks[o] # <<>>
    /\ \E j \in jobs : j.user_id = o
    /\ remind_reply(o, <<NumArg(1), "at", Clock(<<NumArg(HoursPerDay), NumArg(0)>>)>>)
         = "remind_at_example"
    /\ remind_reply(o, <<NumArg(1), "on", Plain(NumArg(1))>>) = "remind_mode"
    /\ remind_reply(o, <<NumArg(1), "in", Plain(Garbage)>>) = "remind_in_example"

\* The arguments of /delete that name a position of the list l.
ValidPosition(l, args) ==
  Len(args) = 1 /\ args[1].ok /\ args[1].v \in 1..Len(l)

\* C12: a /delete whose number is not a position of the owner's list fails
\* and leaves the list as it is; a /delete n with n a position removes the
\* task at n, which is in the list no more, the others keeping their order.
\* (A step that leaves the lists as they are is no /delete of a position, and
\* a step that changes them is a /delete only of a position.)
C12_Delete ==
  /\ [](\A o \in Owners, args \in DeleteArgs :
          /\ ValidPosition(tasks[o], args)
               <=> delete_task_reply(o, args) = "deleted"
          /\ ValidPosition(tasks[o], args)
               => ~ENABLED (delete_task(o, args) /\ UNCHANGED tasks))
  /\ [][\/ UNCHANGED tasks
        \/ \A o \in Owners, args \in DeleteArgs :
             delete_task(o, args)
               => /\ ValidPosition(tasks[o], args)
                  /\ tasks' = [tasks EXCEPT
                                 ![o] = Without(@, tasks[o][args[1].v].id)]
                  /\ Len(tasks'[o]) = Len(tasks[o]) - 1
                  /\ \A i \in 1..Len(tasks'[o]) :
                       tasks'[o][i].id # tasks[o][args[1].v].id]_vars

\* The first of two tasks of an owner was deleted by /delete (no button has
\* removed a task) and the second is now the only one.
C12_Witness ==
  /\ nextId = 3
  /\ used = [u \in Uids |-> 0]
  /\ \E o \in Owners : Len(tasks[o]) = 1 /\ tasks[o][1].id = 2
  /\ \E o \in Owners : tasks[o] = <<>>

\* The text after "/add " is white space only.
Blank(raw) == \A i \in 1..Len(raw) : raw[i] = 0

\* C13: an /add whose text is not empty once stripped makes /list show the
\* list it showed before with the stripped text after it, so N adds show as
\* N tasks in the order added; an /add whose text is empty once stripped is
\* answered with the usage and leaves the lists as they are.  (A step that
\* leaves the lists as they are is no /add of a text, and a step that
\* changes them is an /add only of a text.)
C13_AddThenList ==
  /\ [](\A o \in Owners, raw \in RawTexts :
          /\ Blank(raw) <=> add_task_reply(o, raw) = "add_usage"
          /\ ~Blank(raw) => ~ENABLED (add_task(o, raw) /\ UNCHANGED tasks))
  /\ [][\/ UNCHANGED tasks
        \/ \A o \in Owners, raw \in RawTexts :
             add_task(o, raw)
               => /\ ~Blank(raw)
                  /\ list_tasks_reply(o)' =
                       Append(list_tasks_reply(o), Strip(raw))
                  /\ Head(Strip(raw)) # 0
                  /\ Strip(raw)[Len(Strip(raw))] # 0
                  /\ \A b \in Owners \ {o} : tasks'[b] = tasks[b]]_vars
  /\ [](\A o \in Owners :
          \A i, k \in 1..Len(tasks[o]) : i < k => tasks[o][i].id < tasks[o][k].id)

\* Two tasks with different texts were added by one owner and none deleted:
\* /list shows both, the first added first.
C13_Witness ==
  \E o \in Owners :
    /\ nextId = 3
    /\ Len(list_tasks_reply(o)) = 2
    /\ list_tasks_reply(o)[1] # list_tasks_reply(o)[2]
    /\ tasks[o][1].id = 1

\* The send_reminder tasks whose bot.send_message call has started and not
\* yet returned.
InFlight == {t \in running : t.pc = "send_message"}

\* C14: when send_reminder starts its bot.send_message call, the entry of
\* its token is in the registry, with the owner and task of the job; and
\* while the call is in flight the entry leaves the registry only by a button
\* action on this token, which found it there.
C14_RegisteredBeforeSend ==
  /\ [][\A t \in running :
          send_reminder_register(t)
            => /\ nextUid \in DOMAIN pending_reminders'
               /\ pending_reminders'[nextUid].user_id = t.user_id
               /\ pending_reminders'[nextUid].task = t.task
               /\ \E t2 \in InFlight' : t2.jid = t.jid /\ t2.uid = nextUid]_vars
  /\ [][\A t \in InFlight :
          (Known(t.uid) /\ ~Known(t.uid)')
            => \E o \in Owners, data \in EffectData :
                 /\ data[2] = t.uid
                 /\ button_reply(o, data) # "no_longer_available"
                 /\ button_handler(o, data, TRUE)]_vars
  /\ [](\A t \in InFlight :
          ~Known(t.uid) => \A u \in DOMAIN pending_reminders : u # t.uid)

\* A snooze button was handled for a token while the bot.send_message call
\* that delivers this token had not returned.
C14_Witness ==
  \E t \in InFlight : used[t.uid] = 1 /\ ~Known(t.uid) /\ jobs # {}

\* C15: the task removals and snooze jobs that the actions on one token
\* cause are at most one.
C15_TokenUsedOnce == \A u \in Uids : used[u] <= 1

\* C18: when bot.send_message fails, the end of send_reminder leaves the
\* registry, with the entry minted for this run, and the scheduler's queue as
\* they are.
C18_FailedSendKeepsEntry ==
  /\ [][\A t \in running :
          send_reminder_done(t, FALSE)
            => /\ UNCHANGED <<pending_reminders, jobs, nextJob>>
               /\ (Known(t.uid) => Known(t.uid)')]_vars
  /\ [](\A t \in InFlight : ENABLED send_reminder_done(t, FALSE))

\* A reminder ran to its end, no button was pressed, and the entry is in the
\* registry with nothing in the queue and nothing running.
C18_Witness ==
  /\ \E u \in Uids : Known(u)
  /\ used = [u \in Uids |-> 0]
  /\ running = {}
  /\ jobs = {}
  /\ nextJob = 2

\* C17: a "later" and a "back" action on a token in the registry show their
\* menu and leave the registry, the task lists and the scheduler's queue as
\* they are, so that the token is still taken by Complete and by a snooze.
C17_MenusKeepEntry ==
  /\ [](\A o \in Owners, u \in Uids :
          Known(u) => /\ button_reply(o, <<"later", u>>) = "snooze_menu"
                      /\ button_reply(o, <<"back", u>>) = "reminder_choice"
                      /\ button_reply(o, <<"complete", u>>)
                           \in {"completed", "task_not_found"}
                      /\ button_reply(o, <<"snooze", u, NumArg(1)>>) = "snoozed"
                      /\ ~ENABLED (/\ button_handler(o, <<"later", u>>, TRUE)
                                   /\ ~UNCHANGED <<tasks, jobs, pending_reminders>>)
                      /\ ~ENABLED (/\ button_handler(o, <<"back", u>>, TRUE)
                                   /\ ~UNCHANGED <<tasks, jobs, pending_reminders>>))
  /\ [][\/ UNCHANGED <<tasks, jobs, pending_reminders>>
        \/ \A o \in Owners, u \in Uids, a \in {"later", "back"} :
             ~(Known(u) /\ button_handler(o, <<a, u>>, TRUE))]_vars

\* A token is in the registry, its task is in the list and the scheduler can
\* take one more job: "later" and "back" lead back to this state, in which
\* Complete and a snooze both have their effect.
C17_Witness ==
  \E u \in Uids :
    /\ Known(u)
    /\ TaskExists(u)
    /\ running = {}
    /\ nextJob <= MaxJobs
    /\ ENABLED button_handler(1, <<"later", u>>, TRUE)
    /\ ENABLED button_handler(1, <<"back", u>>, TRUE)

\* The owner's list holds the task with this id.
Owns(o, ref) == \E i \in 1..Len(tasks[o]) : tasks[o][i].id = ref

\* C19: a command of an owner changes no other owner's list, an action on a
\* token changes no list but the one of the owner of its entry, a job only
\* starts a send_reminder for the owner it was scheduled for, which only
\* registers an entry of this owner; and what is scheduled for an owner
\* refers to no other owner's task.
C19_OwnerIsolation ==
  /\ [][\/ UNCHANGED tasks
        \/ /\ \A o \in Owners, raw \in RawTexts :
                add_task(o, raw) => \A b \in Owners \ {o} : tasks'[b] = tasks[b]
           /\ \A o \in Owners, args \in DeleteArgs :
                delete_task(o, args) => \A b \in Owners \ {o} : tasks'[b] = tasks[b]
           /\ \A o \in Owners, data \in EffectData, sent \in BOOLEAN :
                (Known(data[2]) /\ button_handler(o, data, sent))
                  => \A b \in Owners \ {pending_reminders[data[2]].user_id} :
                       tasks'[b] = tasks[b]]_vars
  /\ [][\/ UNCHANGED jobs
        \/ /\ \A o \in Owners, args \in RemindArgs :
                remind(o, args) => \A j \in jobs' \ jobs : j.user_id = o
           /\ \A j \in jobs :
                RunJob(j) => \A t \in running' \ running : t.user_id = j.user_id
           /\ \A o \in Owners, data \in EffectData, sent \in BOOLEAN :
                (Known(data[2]) /\ button_handler(o, data, sent))
                  => \A j \in jobs' \ jobs :
                       j.user_id = pending_reminders[data[2]].user_id]_vars
  /\ [][\/ UNCHANGED pending_reminders
        \/ \A t \in running :
             send_reminder_register(t)
               => \A u \in DOMAIN pending_reminders' \ DOMAIN pending_reminders :
                    pending_reminders'[u].user_id = t.user_id]_vars
  /\ [](/\ \A j \in jobs : \A b \in Owners \ {j.user_id} : ~Owns(b, j.ref)
        /\ \A t \in running : \A b \in Owners \ {t.user_id} : ~Owns(b, t.ref)
        /\ \A u \in DOMAIN pending_reminders :
             \A b \in Owners \ {pending_reminders[u].user_id} :
               ~Owns(b, pending_reminders[u].ref))

\* Both owners had a task, a reminder of the second owner was delivered and
\* its Complete has removed the second owner's task, and the first owner's
\* list is as it was.
C19_Witness ==
  /\ tasks[1] # <<>>
  /\ tasks[2] = <<>>
  /\ \E u \in Uids :
       /\ Known(u)
       /\ used[u] = 1
       /\ pending_reminders[u].user_id = 2
       /\ pending_reminders[u].ref = 2
  /\ jobs = {}

\* C20: a snooze on a token in the registry leaves every task list as it is
\* and schedules the job from the owner and the task text of the entry, also
\* when the task of the entry is in no list any more.
C20_SnoozeWithoutTask ==
  [][\/ UNCHANGED used
     \/ \A o \in Owners, u \in Uids, m \in -1..1, sent \in BOOLEAN :
          (Known(u) /\ button_handler(o, <<"snooze", u, NumArg(m)>>, sent))
            => /\ tasks' = tasks
               /\ \E j \in jobs' \ jobs :
                    /\ j.user_id = pending_reminders[u].user_id
                    /\ j.task = pending_reminders[u].task
                    /\ j.task_index = pending_reminders[u].task_index]_vars

\* The only task ever added is gone, by /delete, and a snooze on the token
\* of its reminder has put a second job into the queue.
C20_Witness ==
  /\ nextId = 2
  /\ \A o \in Owners : tasks[o] = <<>>
  /\ \E u \in Uids : used[u] = 1
  /\ \E j \in jobs : j.jid = 2 /\ j.ref = 1

====
